---- MODULE Spec2Model ----
(***************************************************************************)
(* QBIT-AI report pipeline: technical-indicator snapshot of the buy and    *)
(* the sell trade (TechnicalAnalysisService), the retrying completion      *)
(* client (OpenAIService.generate_completion), the report assembler        *)
(* (ReportGenerator.generate_report) and the route that calls it.          *)
(*                                                                         *)
(* Units.  Timestamps of the request are integer milliseconds; the model   *)
(* draws whole hours only and writes a timestamp as its number of hours    *)
(* since the epoch.  Decimal strings (close) are written in thousandths,   *)
(* rounded prices in hundredths.  volume is a whole number.                *)
(***************************************************************************)
EXTENDS Integers, Sequences, FiniteSets, TLC

(* ------------------------------------------------------------------ *)
(* Bounds of the explored inputs                                       *)
(* ------------------------------------------------------------------ *)
ExtraCandles == 1       \* candle lists go up to MinCandles + ExtraCandles
MaxTrades == 2          \* trade-event lists have 1..MaxTrades events
MaxAttempts == 3        \* configured retry_attempts range over 1..MaxAttempts
MaxDelay == 2           \* configured retry_delay ranges over 1..MaxDelay

(* ------------------------------------------------------------------ *)
(* Program constants                                                   *)
(* ------------------------------------------------------------------ *)
MinCandles == 20        \* len(candle_data) < 20 short-circuits
HoursPerDay == 24
PdMaxHour == 2562047    \* last whole hour pd.to_datetime(unit='ms') accepts (2262-04-11 23:00)
PyMaxHour == 70389527   \* last whole hour datetime.fromtimestamp accepts (9999-12-31 23:00)
BadNum == 0 - 1         \* an OHLCV string that float() rejects

Sides == {"BUY", "SELL"}

IndicatorColumns ==
    {"rsi_14", "macd", "macd_signal", "macd_hist", "sma_20", "sma_50",
     "sma_200", "ema_12", "ema_26", "bb_upper", "bb_middle", "bb_lower",
     "stoch_k", "stoch_d", "adx", "atr", "obv", "willr", "volume_change"}

NaN == <<>>             \* an undefined cell of a column / Python None in a snapshot
None == <<>>
Num(x) == <<x>>
LibNum == 1             \* stand-in for a finite value computed by pandas_ta

(* ------------------------------------------------------------------ *)
(* Calendar: Timestamp.strftime("%Y-%m-%d")                            *)
(* ------------------------------------------------------------------ *)
Pad2(n) == IF n < 10 THEN "0" \o ToString(n) ELSE ToString(n)

Pad4(n) ==
    IF n < 10 THEN "000" \o ToString(n)
    ELSE IF n < 100 THEN "00" \o ToString(n)
    ELSE IF n < 1000 THEN "0" \o ToString(n)
    ELSE ToString(n)

\* proleptic Gregorian date of a day number counted from 1970-01-01 (day >= 0)
CivilFromDays(day) ==
    LET z == day + 719468
        era == z \div 146097
        doe == z - era * 146097
        yoe == (doe - doe \div 1460 + doe \div 36524 - doe \div 146096) \div 365
        doy == doe - (365 * yoe + yoe \div 4 - yoe \div 100)
        mp == (5 * doy + 2) \div 153
        d == doy - (153 * mp + 2) \div 5 + 1
        m == IF mp < 10 THEN mp + 3 ELSE mp - 9
        y == yoe + era * 400 + (IF m <= 2 THEN 1 ELSE 0)
    IN  [year |-> y, month |-> m, day |-> d]

Strftime(hour) ==
    LET c == CivilFromDays(hour \div HoursPerDay)
    IN  Pad4(c.year) \o "-" \o Pad2(c.month) \o "-" \o Pad2(c.day)

(* ------------------------------------------------------------------ *)
(* Request inputs (app/models/request.py)                               *)
(* ------------------------------------------------------------------ *)
Layouts == {"asc", "desc", "rot", "dup"}

\* timestamp of the candle at input position i of an n-candle list:
\* candles are 4 hours apart starting at hour 18, given ascending,
\* descending, rotated, or ascending with candle 2 repeating candle 1's time
CandleHour(layout, n, i) ==
    CASE layout = "asc"  -> 18 + 4 * (i - 1)
      [] layout = "desc" -> 18 + 4 * (n - i)
      [] layout = "rot"  -> 18 + 4 * ((i + 2) % n)
      [] layout = "dup"  -> IF i = 2 THEN 18 ELSE 18 + 4 * (i - 1)

\* CandleData: timestamp plus decimal strings; close in thousandths
CandleData(layout, n, bad) ==
    [i \in 1..n |->
        [timestamp |-> CandleHour(layout, n, i),
         close     |-> IF i = bad THEN BadNum
                       ELSE 100000 + 1010 * i + (IF i % 2 = 1 THEN 3 ELSE 7),
         volume    |-> IF i % 3 = 0 THEN 1250 ELSE 1000]]

CandleCounts == {1, MinCandles - 1} \cup (MinCandles .. (MinCandles + ExtraCandles))

ChartInputs ==
    {CandleData(l, n, b) : l \in Layouts, n \in CandleCounts, b \in {0, 1}}

\* hours of the trade events: on a candle, midway between two candles,
\* midway and on the next calendar day, far after the last candle, beyond
\* the range of pd.to_datetime, beyond the range of datetime.fromtimestamp
TradeHours == {18, 20, 24, 1000, PdMaxHour + 1, PyMaxHour + 1}

TradePoint == [timestamp : TradeHours, side : Sides]

TradeInputs == UNION {[1..k -> TradePoint] : k \in 1..MaxTrades}

(* ------------------------------------------------------------------ *)
(* Series Builder: DataFrame, to_datetime, astype(float), sort_values   *)
(* ------------------------------------------------------------------ *)
Abs(x) == IF x < 0 THEN 0 - x ELSE x

\* pd.to_datetime(ts, unit='ms') raises OutOfBoundsDatetime past 2262-04-11
ToDatetimeRaises(ts) == ts > PdMaxHour

\* astype(float) raises ValueError on a string that is not a number
AsTypeFloatRaises(candle_data) ==
    \E i \in 1..Len(candle_data) : candle_data[i].close = BadNum

Rows(candle_data) ==
    [i \in 1..Len(candle_data) |->
        [label |-> i, timestamp |-> candle_data[i].timestamp,
         close |-> candle_data[i].close, volume |-> candle_data[i].volume]]

InsertRow(s, c) ==
    LET k == Cardinality({j \in 1..Len(s) : s[j].timestamp <= c.timestamp})
    IN  SubSeq(s, 1, k) \o <<c>> \o SubSeq(s, k + 1, Len(s))

RECURSIVE StableSort(_)
StableSort(rows) ==
    IF rows = <<>> THEN <<>>
    ELSE InsertRow(StableSort(SubSeq(rows, 1, Len(rows) - 1)), rows[Len(rows)])

SwapAt(s, i) ==
    [j \in 1..Len(s) |-> IF j = i THEN s[i + 1] ELSE IF j = i + 1 THEN s[i] ELSE s[j]]

\* df.sort_values('timestamp'): the default kind is quicksort, which is not
\* stable, so rows of equal timestamp may come out in either order
SortValues(rows) ==
    LET st == StableSort(rows)
    IN  {st} \cup {SwapAt(st, i) : i \in {j \in 1..(Len(st) - 1) :
                                            st[j].timestamp = st[j + 1].timestamp}}

(* ------------------------------------------------------------------ *)
(* Indicator Engine: _calculate_all_indicators                          *)
(* ------------------------------------------------------------------ *)
\* zero-based index of the first defined cell of each pandas_ta column
FirstValid ==
    [c \in IndicatorColumns \ {"volume_change"} |->
        CASE c = "rsi_14" -> 14
          [] c = "macd" -> 25
          [] c \in {"macd_signal", "macd_hist"} -> 33
          [] c \in {"sma_20", "bb_upper", "bb_middle", "bb_lower"} -> 19
          [] c = "sma_50" -> 49
          [] c = "sma_200" -> 199
          [] c = "ema_12" -> 11
          [] c = "ema_26" -> 25
          [] c = "stoch_k" -> 15
          [] c = "stoch_d" -> 17
          [] c = "adx" -> 27
          [] c = "atr" -> 14
          [] c = "obv" -> 0
          [] c = "willr" -> 13]

\* df['volume'].pct_change() * 100, in hundredths of a percent
PctChange(df, pos) ==
    IF pos = 1 THEN NaN
    ELSE Num(((df[pos].volume - df[pos - 1].volume) * 10000) \div df[pos - 1].volume)

Cell(df, c, pos) ==
    IF c = "volume_change" THEN PctChange(df, pos)
    ELSE IF pos - 1 >= FirstValid[c] THEN Num(LibNum) ELSE NaN

CalculateAllIndicators(df) ==
    [pos \in 1..Len(df) |->
        [label |-> df[pos].label, timestamp |-> df[pos].timestamp,
         close |-> df[pos].close, volume |-> df[pos].volume,
         ind |-> [c \in IndicatorColumns |-> Cell(df, c, pos)]]]

(* ------------------------------------------------------------------ *)
(* Trade Aligner: _analyze_trade_point                                  *)
(* ------------------------------------------------------------------ *)
SnapshotKeys == {"date", "close_price", "volume"} \cup IndicatorColumns

\* _get_empty_point_analysis
EmptyPointAnalysis == [date |-> "N/A", close_price |-> 0]

\* _get_default_analysis
DefaultAnalysis ==
    [buy_analysis |-> EmptyPointAnalysis, sell_analysis |-> EmptyPointAnalysis]

FilteredPointsAnySide(trade_points, side) == trade_points

\* [tp for tp in trade_points if tp['side'] == side]
FilteredPoints(trade_points, side) ==
    SelectSeq(trade_points, LAMBDA tp : tp.side = side)

EarliestPoint(filtered) ==
    filtered[CHOOSE i \in 1..Len(filtered) :
                \A j \in 1..Len(filtered) :
                    /\ filtered[i].timestamp <= filtered[j].timestamp
                    /\ (j < i => filtered[j].timestamp > filtered[i].timestamp)]

\* trade_point = filtered_points[0]
FirstPoint(filtered) == filtered[1]

\* df['time_diff'] = abs((df['timestamp'] - timestamp).dt.total_seconds())
TimeDiff(df, timestamp) ==
    [pos \in 1..Len(df) |-> Abs(df[pos].timestamp - timestamp)]

IdxMinLast(diff) ==
    CHOOSE p \in 1..Len(diff) :
        /\ \A q \in 1..Len(diff) : diff[p] <= diff[q]
        /\ \A q \in (p + 1)..Len(diff) : diff[q] > diff[p]

\* Series.idxmin(): scan in row order, keep the first minimum
RECURSIVE IdxMinScan(_, _, _)
IdxMinScan(diff, pos, best) ==
    IF pos > Len(diff) THEN best
    ELSE IdxMinScan(diff, pos + 1, IF diff[pos] < diff[best] THEN pos ELSE best)

IdxMin(diff) == IdxMinScan(diff, 2, 1)

\* round(float(x), 2) of a value given in thousandths, result in hundredths
Round2(mills) == (mills + 5) \div 10

\* round(float(row.get(c)), k) if pd.notna(row.get(c)) else None
NotNaOrNone(cell) == IF cell # NaN THEN cell ELSE None

\* 'volume_change': ... if pd.notna(row.get('volume_change')) else 0
VolumeChangeEntry(cell) == IF cell # NaN THEN cell ELSE Num(0)

SnapshotDateOfCandle(row, timestamp) == Strftime(row.timestamp)

\* 'date': timestamp.strftime("%Y-%m-%d"), timestamp being the trade event's
SnapshotDate(row, timestamp) == Strftime(timestamp)

AllIndicators(row, timestamp) ==
    [k \in SnapshotKeys |->
        CASE k = "date" -> SnapshotDate(row, timestamp)
          [] k = "close_price" -> Round2(row.close)
          [] k = "volume" -> Num(row.volume * 100)
          [] k = "volume_change" -> VolumeChangeEntry(row.ind[k])
          [] OTHER -> NotNaOrNone(row.ind[k])]

\* result of _analyze_trade_point: the exception flag, the row position
\* chosen (0 when no row was looked up) and the returned dictionary
AnalyzeTradePoint(df, trade_points, side) ==
    LET filtered == FilteredPoints(trade_points, side)
    IN  IF filtered = <<>>
        THEN [raised |-> FALSE, closest |-> 0, value |-> EmptyPointAnalysis]
        ELSE LET timestamp == FirstPoint(filtered).timestamp
             IN  IF ToDatetimeRaises(timestamp)
                 THEN [raised |-> TRUE, closest |-> 0, value |-> EmptyPointAnalysis]
                 ELSE LET closest == IdxMin(TimeDiff(df, timestamp))
                      IN  [raised |-> FALSE, closest |-> closest,
                           value |-> AllIndicators(df[closest], timestamp)]

(* ------------------------------------------------------------------ *)
(* Completion client helpers: OpenAIService.generate_completion         *)
(* ------------------------------------------------------------------ *)
RECURSIVE Pow2(_)
Pow2(n) == IF n <= 0 THEN 1 ELSE 2 * Pow2(n - 1)

\* exception classes the backend call is made to raise, and the classes each
\* is an instance of (openai's hierarchy; ValueError is a non-openai error;
\* asyncio.CancelledError derives from BaseException, not from Exception)
Raisable == {"RateLimitError", "APITimeoutError", "APIConnectionError", "ValueError"}

InstanceOf(cls) ==
    CASE cls = "RateLimitError" ->
            {"RateLimitError", "APIStatusError", "APIError", "OpenAIError", "Exception"}
      [] cls = "APITimeoutError" ->
            {"APITimeoutError", "APIConnectionError", "APIError", "OpenAIError", "Exception"}
      [] cls = "APIConnectionError" ->
            {"APIConnectionError", "APIError", "OpenAIError", "Exception"}
      [] cls = "ValueError" -> {"ValueError", "Exception"}
      [] cls = "CancelledError" -> {"CancelledError", "BaseException"}

ExceptClausesGenericFirst ==
    <<"OpenAIError", "RateLimitError", "APITimeoutError", "Exception">>

ExceptClausesCatchAll ==
    <<"RateLimitError", "APITimeoutError", "BaseException", "Exception">>

\* the except clauses of the try statement, in source order
ExceptClauses == <<"RateLimitError", "APITimeoutError", "OpenAIError", "Exception">>

\* the clause that handles an exception: the first one it is an instance of
Handler(cls) ==
    ExceptClauses[CHOOSE i \in 1..Len(ExceptClauses) :
                    /\ ExceptClauses[i] \in InstanceOf(cls)
                    /\ \A j \in 1..(i - 1) : ExceptClauses[j] \notin InstanceOf(cls)]

\* no except clause of the try statement matches: the exception leaves
\* generate_completion
Propagates(cls) ==
    \A i \in 1..Len(ExceptClauses) : ExceptClauses[i] \notin InstanceOf(cls)

WaitTimePlain(clause, retry_delay, attempt) == retry_delay * Pow2(attempt)

\* wait_time of the three retrying clauses
WaitTime(clause, retry_delay, attempt) ==
    IF clause = "RateLimitError"
    THEN retry_delay * Pow2(attempt) * 2
    ELSE retry_delay * Pow2(attempt)

WhileCondOneMore(attempt, retry_attempts) == attempt <= retry_attempts

\* while attempt < self.settings.retry_attempts
WhileCond(attempt, retry_attempts) == attempt < retry_attempts

NoError == [cls |-> "None", call |-> 0]

\* what a successful create() can hand back: message.content (or None) and
\* usage.total_tokens (or no usage)
\* contents: a JSON object with every report key, a JSON object lacking
\* report keys, text that is not JSON, None
Contents == {<<"report">>, <<"partial">>, <<"malformed">>, <<>>}
Usages == {<<42>>, <<0>>, <<>>}

\* content = response.choices[0].message.content or ""
ContentOrEmpty(content) == IF content = <<>> THEN "" ELSE content[1]

TokensOrMinusOne(usage) == IF usage = <<>> THEN 0 - 1 ELSE usage[1]

\* tokens_used = response.usage.total_tokens if response.usage else 0
TokensUsed(usage) == IF usage = <<>> THEN 0 ELSE usage[1]

JsonLoadsLenient(text) == text \in {"report", "partial", "malformed"}

\* json.loads(text) returns (does not raise JSONDecodeError)
JsonLoadsReturns(text) == text \in {"report", "partial"}

\* report_data has the seven keys the route reads
HasReportKeys(text) == text = "report"

(* ------------------------------------------------------------------ *)
(* State                                                                *)
(* ------------------------------------------------------------------ *)
VARIABLES
    settings,       \* Settings: retry_attempts, retry_delay
    request,        \* GenerateReportRequest: chart_data, trade_points, dates_ok
    pc,             \* where the request is
    df,             \* calculate_indicators: the sorted frame with its columns
    engine_calls,   \* number of _calculate_all_indicators calls
    align_calls,    \* sides _analyze_trade_point was called for, in order
    closest_idx,    \* row position chosen for each side (0: none)
    ta_error,       \* calculate_indicators took its except branch
    analysis,       \* what calculate_indicators returned
    attempt,        \* generate_completion: attempt
    last_error,     \* generate_completion: last_error
    calls,          \* number of chat.completions.create calls made
    sleeps,         \* the asyncio.sleep calls made, in order
    result,         \* (content, tokens_used) returned, the call and what it handed back
    failure,        \* the exception travelling up to the route
    response        \* what the route answers

vars == <<settings, request, pc, df, engine_calls, align_calls, closest_idx,
          ta_error, analysis, attempt, last_error, calls, sleeps, result,
          failure, response>>

taVars == <<df, engine_calls, align_calls, closest_idx, ta_error, analysis>>
clientVars == <<attempt, last_error, calls, sleeps, result>>

NoAnalysis == [buy_analysis |-> <<>>, sell_analysis |-> <<>>]
NoResult == <<>>
NoFailure == [message |-> "", cause |-> NoError]
NoResponse == [status |-> 0]

SettingsInputs ==
    [retry_attempts : 1..MaxAttempts, retry_delay : 1..MaxDelay]

\* requests of the indicator specification: every chart and trade list
RequestInputs ==
    [chart_data : ChartInputs, trade_points : TradeInputs, dates_ok : {TRUE}]

\* requests of the pipeline specification: ascending charts, trade events
\* on a candle, past pandas' range and past datetime's range
PipelineTradeInputs ==
    UNION {[1..k -> [timestamp : {18, PdMaxHour + 1, PyMaxHour + 1}, side : Sides]] :
              k \in 1..MaxTrades}

PipelineRequestInputs ==
    [chart_data : {CandleData("asc", n, b) : n \in CandleCounts, b \in {0, 1}},
     trade_points : PipelineTradeInputs,
     dates_ok : BOOLEAN]

\* the request of the client specification
ClientRequest ==
    [chart_data |-> CandleData("asc", 1, 0),
     trade_points |-> <<[timestamp |-> 18, side |-> "BUY"]>>,
     dates_ok |-> TRUE]

InitWith(s, r, p) ==
    /\ settings = s
    /\ request = r
    /\ pc = p
    /\ df = <<>>
    /\ engine_calls = 0
    /\ align_calls = <<>>
    /\ closest_idx = [sd \in Sides |-> 0]
    /\ ta_error = FALSE
    /\ analysis = NoAnalysis
    /\ attempt = 0
    /\ last_error = NoError
    /\ calls = 0
    /\ sleeps = <<>>
    /\ result = NoResult
    /\ failure = NoFailure
    /\ response = NoResponse

(* ------------------------------------------------------------------ *)
(* TechnicalAnalysisService.calculate_indicators                        *)
(* ------------------------------------------------------------------ *)
InsufficientDataOffByOne(candle_data) ==
    candle_data = <<>> \/ Len(candle_data) < MinCandles - 1

\* if not candle_data or len(candle_data) < 20
InsufficientData(candle_data) ==
    candle_data = <<>> \/ Len(candle_data) < MinCandles

TaExceptKeepsBuy(frame, n_engine, sides_done, buy_idx) ==
    /\ df' = frame
    /\ engine_calls' = n_engine
    /\ align_calls' = sides_done
    /\ closest_idx' = [sd \in Sides |-> IF sd = "BUY" THEN buy_idx ELSE 0]
    /\ ta_error' = TRUE
    /\ analysis' =
          [buy_analysis |-> IF buy_idx = 0 THEN EmptyPointAnalysis
                            ELSE AllIndicators(frame[buy_idx], frame[buy_idx].timestamp),
           sell_analysis |-> EmptyPointAnalysis]

\* the except branch: return self._get_default_analysis()
TaExcept(frame, n_engine, sides_done, buy_idx) ==
    /\ df' = frame
    /\ engine_calls' = n_engine
    /\ align_calls' = sides_done
    /\ closest_idx' = [sd \in Sides |-> IF sd = "BUY" THEN buy_idx ELSE 0]
    /\ ta_error' = TRUE
    /\ analysis' = DefaultAnalysis

CalculateIndicators ==
    /\ pc = "generate_report"
    /\ pc' = "create_prompt"
    /\ LET cd == request.chart_data
           tp == request.trade_points
       IN  IF InsufficientData(cd)
           THEN /\ analysis' = DefaultAnalysis
                /\ UNCHANGED <<df, engine_calls, align_calls, closest_idx, ta_error>>
           ELSE IF AsTypeFloatRaises(cd)
                   \/ \E i \in 1..Len(cd) : ToDatetimeRaises(cd[i].timestamp)
           THEN TaExcept(<<>>, 0, <<>>, 0)
           ELSE \E sorted \in SortValues(Rows(cd)) :
                  LET frame == CalculateAllIndicators(sorted)
                      buy == AnalyzeTradePoint(frame, tp, "BUY")
                      sell == AnalyzeTradePoint(frame, tp, "SELL")
                  IN  IF buy.raised THEN TaExcept(frame, 1, <<"BUY">>, 0)
                      ELSE IF sell.raised THEN TaExcept(frame, 1, <<"BUY", "SELL">>, buy.closest)
                      ELSE /\ df' = frame
                           /\ engine_calls' = engine_calls + 1
                           /\ align_calls' = <<"BUY", "SELL">>
                           /\ closest_idx' = [sd \in Sides |->
                                  IF sd = "BUY" THEN buy.closest ELSE sell.closest]
                           /\ ta_error' = FALSE
                           /\ analysis' = [buy_analysis |-> buy.value,
                                           sell_analysis |-> sell.value]
    /\ UNCHANGED <<settings, request, attempt, last_error, calls, sleeps,
                   result, failure, response>>

(* ------------------------------------------------------------------ *)
(* ReportGenerator.generate_report: prompt, completion, json.loads      *)
(* ------------------------------------------------------------------ *)
\* datetime.fromtimestamp(point.timestamp / 1000) raises past year 9999
FormatTradePointsRaises(trade_points) ==
    \E i \in 1..Len(trade_points) : trade_points[i].timestamp > PyMaxHour

\* (request.end_date - request.start_date) raises TypeError when one date
\* carries a UTC offset and the other does not
HoldingDaysRaises(req) == ~req.dates_ok

\* the exception generate_report re-raises to the route
Raise(message, cause) ==
    /\ failure' = [message |-> message, cause |-> cause]
    /\ pc' = "route_except"

\* _create_user_prompt, then the entry of generate_completion
CreateUserPrompt ==
    /\ pc = "create_prompt"
    /\ IF FormatTradePointsRaises(request.trade_points)
       THEN Raise("ValueError", NoError)
       ELSE IF HoldingDaysRaises(request)
       THEN Raise("TypeError", NoError)
       ELSE /\ pc' = "while"
            /\ UNCHANGED failure
    /\ df' = <<>>
    /\ attempt' = 0
    /\ last_error' = NoError
    /\ UNCHANGED <<settings, request, engine_calls, align_calls, closest_idx,
                   ta_error, analysis, calls, sleeps, result, response>>

\* the loop test holds: chat.completions.create is awaited
EnterAttempt ==
    /\ pc = "while"
    /\ WhileCond(attempt, settings.retry_attempts)
    /\ calls' = calls + 1
    /\ pc' = "create"
    /\ UNCHANGED <<settings, request, taVars, attempt, last_error, sleeps,
                   result, failure, response>>

\* raise Exception(f"OpenAI API 호출 실패: {str(last_error)}")
RaiseCallFailed(err) == Raise("OpenAI API call failed", err)

\* the loop test fails: fall out of the loop
ExitLoop ==
    /\ pc = "while"
    /\ ~WhileCond(attempt, settings.retry_attempts)
    /\ RaiseCallFailed(last_error)
    /\ UNCHANGED <<settings, request, taVars, clientVars, response>>

\* create() returns: content = ... or "", tokens_used = ... if usage else 0
CreateReturns ==
    /\ pc = "create"
    /\ \E content \in Contents, usage \in Usages :
          result' = [content |-> ContentOrEmpty(content),
                     tokens_used |-> TokensUsed(usage),
                     call |-> calls,
                     upstream |-> [content |-> content, usage |-> usage]]
    /\ pc' = "loads"
    /\ UNCHANGED <<settings, request, taVars, attempt, last_error, calls,
                   sleeps, failure, response>>

UnexpectedRetries(err) ==
    /\ sleeps' = Append(sleeps, [cls |-> err.cls, clause |-> "Exception",
                                 attempt |-> attempt, wait_time |-> 0])
    /\ pc' = "sleep"
    /\ UNCHANGED failure

\* except Exception: ... break, and the raise after the loop
Unexpected(err) ==
    /\ RaiseCallFailed(err)
    /\ UNCHANGED sleeps

\* the except clause matching an exception of class cls runs up to its await
Handle(cls) ==
    LET err == [cls |-> cls, call |-> calls]
        clause == Handler(cls)
    IN  /\ last_error' = err
        /\ IF clause = "Exception"
           THEN Unexpected(err)
           ELSE /\ sleeps' = Append(sleeps,
                      [cls |-> cls, clause |-> clause, attempt |-> attempt,
                       wait_time |-> WaitTime(clause, settings.retry_delay, attempt)])
                /\ pc' = "sleep"
                /\ UNCHANGED failure

\* create() raises
CreateRaises ==
    /\ pc = "create"
    /\ \E cls \in Raisable : Handle(cls)
    /\ UNCHANGED <<settings, request, taVars, attempt, calls, result, response>>

\* CancelledError leaves generate_completion, then generate_report and the
\* route, whose handlers are except Exception: no response is built
CancelPropagates ==
    /\ failure' = [message |-> "CancelledError",
                   cause |-> [cls |-> "CancelledError", call |-> calls]]
    /\ pc' = "cancelled"

\* the request's task is cancelled while create() is awaited: CancelledError
\* is raised inside the try statement
CancelInCreate ==
    /\ pc = "create"
    /\ IF Propagates("CancelledError")
       THEN CancelPropagates /\ UNCHANGED <<last_error, sleeps>>
       ELSE Handle("CancelledError")
    /\ UNCHANGED <<settings, request, taVars, attempt, calls, result, response>>

\* the request's task is cancelled while asyncio.sleep is awaited:
\* CancelledError is raised inside an except clause, which no clause catches
CancelInSleep ==
    /\ pc = "sleep"
    /\ CancelPropagates
    /\ UNCHANGED <<settings, request, taVars, clientVars, response>>

\* asyncio.sleep returns: attempt += 1
SleepReturns ==
    /\ pc = "sleep"
    /\ attempt' = attempt + 1
    /\ pc' = "while"
    /\ UNCHANGED <<settings, request, taVars, last_error, calls, sleeps,
                   result, failure, response>>

\* json.loads(report_json)
JsonLoads ==
    /\ pc = "loads"
    /\ IF JsonLoadsReturns(result.content)
       THEN /\ pc' = "route_build"
            /\ UNCHANGED failure
       ELSE Raise("OpenAI response JSON parse failed", NoError)
    /\ UNCHANGED <<settings, request, taVars, clientVars, response>>

(* ------------------------------------------------------------------ *)
(* routers/report.py: generate_report                                   *)
(* ------------------------------------------------------------------ *)
\* GenerateReportResponse(...): report_data[key] raises KeyError when the
\* key is missing, which the route's own except Exception catches
RouteRespond ==
    /\ pc = "route_build"
    /\ IF HasReportKeys(result.content)
       THEN /\ response' = [status |-> 200, success |-> TRUE,
                            report |-> result.content,
                            tokens_used |-> result.tokens_used]
            /\ pc' = "done"
            /\ UNCHANGED failure
       ELSE /\ Raise("KeyError", NoError)
            /\ UNCHANGED response
    /\ UNCHANGED <<settings, request, taVars, clientVars>>

\* except Exception as e: raise HTTPException(500, detail=f"...: {str(e)}")
RouteExcept ==
    /\ pc = "route_except"
    /\ response' = [status |-> 500, detail |-> failure]
    /\ pc' = "done"
    /\ UNCHANGED <<settings, request, taVars, clientVars, failure>>

(* ------------------------------------------------------------------ *)
(* Specifications                                                       *)
(* ------------------------------------------------------------------ *)
\* the whole request, from the route to its response
Init ==
    \E s \in SettingsInputs, r \in PipelineRequestInputs :
        InitWith(s, r, "generate_report")

Next ==
    \/ CalculateIndicators
    \/ CreateUserPrompt
    \/ EnterAttempt
    \/ ExitLoop
    \/ CreateReturns
    \/ CreateRaises
    \/ SleepReturns
    \/ CancelInCreate
    \/ CancelInSleep
    \/ JsonLoads
    \/ RouteRespond
    \/ RouteExcept

Spec == Init /\ [][Next]_vars

\* calculate_indicators alone, over every chart and trade list
InitTA ==
    \E r \in RequestInputs :
        InitWith([retry_attempts |-> 1, retry_delay |-> 1], r, "generate_report")

NextTA == CalculateIndicators

SpecTA == InitTA /\ [][NextTA]_vars

\* generate_completion alone, from its entry, over every configuration
InitClient ==
    \E s \in SettingsInputs : InitWith(s, ClientRequest, "while")

NextClient ==
    \/ EnterAttempt
    \/ ExitLoop
    \/ CreateReturns
    \/ CreateRaises
    \/ SleepReturns
    \/ CancelInCreate
    \/ CancelInSleep

SpecClient == InitClient /\ [][NextClient]_vars

\* generate_completion alone, retry_attempts being any integer the settings
\* accept: negative, zero or positive
InitAnyAttempts ==
    \E s \in [retry_attempts : (0 - 1)..MaxAttempts, retry_delay : 1..MaxDelay] :
        InitWith(s, ClientRequest, "while")

SpecAnyAttempts == InitAnyAttempts /\ [][NextClient]_vars

(* ------------------------------------------------------------------ *)
(* Properties of generate_completion (SpecClient)                       *)
(* ------------------------------------------------------------------ *)
\* every call made so far has failed, and each with a rate-limit error
OnlyRateLimited ==
    /\ Len(sleeps) = calls
    /\ \A i \in 1..Len(sleeps) : sleeps[i].cls = "RateLimitError"

\* C1: when every call fails with a rate-limit error, at most retry_attempts
\* calls are ever made, and the failure is raised after exactly
\* retry_attempts calls and carries the error of the last call.
C1_RetryExhaustion ==
    OnlyRateLimited =>
        /\ calls <= settings.retry_attempts
        /\ pc \in {"route_except", "done"} =>
              /\ calls = settings.retry_attempts
              /\ failure.message = "OpenAI API call failed"
              /\ failure.cause = [cls |-> "RateLimitError",
                                  call |-> settings.retry_attempts]

C1_Witness ==
    /\ OnlyRateLimited
    /\ pc = "route_except"
    /\ settings.retry_attempts = MaxAttempts
    /\ calls = MaxAttempts

RECURSIVE SumWaits(_)
SumWaits(log) ==
    IF log = <<>> THEN 0
    ELSE log[Len(log)].wait_time + SumWaits(SubSeq(log, 1, Len(log) - 1))

\* sum of d * 2^i * 2 for i in 0..(K - 2)
RECURSIVE RateLimitBackoff(_, _)
RateLimitBackoff(d, K) ==
    IF K <= 1 THEN 0
    ELSE d * Pow2(K - 2) * 2 + RateLimitBackoff(d, K - 1)

\* C2: when calls 1..K-1 fail with a rate-limit error and call K succeeds,
\* the result returned is that of call K and the waits add up to the sum of
\* d * 2^i * 2 over i in 0..K-2.
C2_RetryThenSuccess ==
    (pc = "loads" /\ \A i \in 1..Len(sleeps) : sleeps[i].cls = "RateLimitError") =>
        /\ calls = Len(sleeps) + 1
        /\ calls <= settings.retry_attempts
        /\ result.call = calls
        /\ SumWaits(sleeps) = RateLimitBackoff(settings.retry_delay, calls)

C2_Witness ==
    /\ pc = "loads"
    /\ calls = MaxAttempts
    /\ calls >= 2
    /\ \A i \in 1..Len(sleeps) : sleeps[i].cls = "RateLimitError"
    /\ SumWaits(sleeps) > 0

\* C3: a failure that is no OpenAIError ends the loop at once: no sleep is
\* made for it, no call follows it, the failure raised carries it; on the
\* first attempt that is one call and no sleep at all.
C3_UnexpectedNotRetried ==
    /\ \A i \in 1..Len(sleeps) : sleeps[i].clause # "Exception"
    /\ last_error.cls = "ValueError" =>
          /\ pc \in {"route_except", "done"}
          /\ failure.cause = last_error
          /\ calls = last_error.call
          /\ Len(sleeps) = calls - 1
          /\ attempt = calls - 1

C3_Witness ==
    /\ last_error.cls = "ValueError"
    /\ calls = 1
    /\ sleeps = <<>>
    /\ settings.retry_attempts = MaxAttempts
    /\ pc = "route_except"

\* C4: the i-th sleep follows the failure at attempt index i - 1 and lasts
\* d * 2^attempt, doubled for a rate-limit error; rate-limit and timeout
\* errors are handled by their own except clause.
C4_BackoffByClass ==
    \A i \in 1..Len(sleeps) :
        LET e == sleeps[i]
            base == settings.retry_delay * Pow2(e.attempt)
        IN  /\ e.attempt = i - 1
            /\ e.cls = "RateLimitError" => e.wait_time = 2 * base
            /\ e.cls \in {"APITimeoutError", "APIConnectionError"} => e.wait_time = base
            /\ e.cls \in {"RateLimitError", "APITimeoutError"} => e.clause = e.cls
            /\ e.cls = "APIConnectionError" => e.clause = "OpenAIError"

C4_Witness ==
    /\ Len(sleeps) >= 3
    /\ sleeps[1].cls = "APIConnectionError"
    /\ sleeps[2].cls = "RateLimitError"
    /\ sleeps[3].cls = "APITimeoutError"

(* ------------------------------------------------------------------ *)
(* Properties of the pipeline on short candle lists (Spec)              *)
(* ------------------------------------------------------------------ *)
ShortChart == Len(request.chart_data) < MinCandles

\* the request ended in _create_user_prompt, before generate_completion
AbortedBeforeClient == failure.message \in {"ValueError", "TypeError"}

PromptRaises ==
    FormatTradePointsRaises(request.trade_points) \/ HoldingDaysRaises(request)

ShortChartDegrades ==
    /\ engine_calls = 0
    /\ align_calls = <<>>
    /\ df = <<>>
    /\ analysis.buy_analysis = [date |-> "N/A", close_price |-> 0]
    /\ analysis.sell_analysis = [date |-> "N/A", close_price |-> 0]

\* C5 as stated: with fewer than 20 candles, whatever the trade events, no
\* indicator is computed, both sides are the sentinel and the request always
\* goes on to the completion client.
C5_AsStated ==
    (ShortChart /\ pc # "generate_report") =>
        /\ ShortChartDegrades
        /\ ~AbortedBeforeClient

\* C5: with fewer than 20 candles no indicator is computed and no trade is
\* aligned, both sides are the sentinel and calculate_indicators does not
\* raise; the request goes on to the completion client exactly when building
\* the prompt does not raise.
C5_ShortChart ==
    (ShortChart /\ pc # "generate_report") =>
        /\ ShortChartDegrades
        /\ ~ta_error
        /\ AbortedBeforeClient => PromptRaises
        /\ (~PromptRaises /\ pc # "create_prompt") =>
              (pc = "while" \/ calls >= 1)

C5_Witness ==
    /\ Len(request.chart_data) = MinCandles - 1
    /\ Len(request.trade_points) = MaxTrades
    /\ analysis = DefaultAnalysis
    /\ engine_calls = 0
    /\ pc = "create"
    /\ calls = 1

(* ------------------------------------------------------------------ *)
(* Properties of calculate_indicators (SpecTA)                          *)
(* ------------------------------------------------------------------ *)
Returned == pc # "generate_report"

LongChart == Len(request.chart_data) >= MinCandles

Other(side) == IF side = "BUY" THEN "SELL" ELSE "BUY"

SideAnalysis(side) ==
    IF side = "BUY" THEN analysis.buy_analysis ELSE analysis.sell_analysis

HasEvent(side) ==
    \E i \in 1..Len(request.trade_points) : request.trade_points[i].side = side

\* index, in the request's list, of the first event of a side
FirstIndexOf(side) ==
    CHOOSE i \in 1..Len(request.trade_points) :
        /\ request.trade_points[i].side = side
        /\ \A j \in 1..(i - 1) : request.trade_points[j].side # side

IsSentinel(a) == a = [date |-> "N/A", close_price |-> 0]

IsFull(a) == DOMAIN a = SnapshotKeys /\ a.date # "N/A"

Distance(pos, hour) == Abs(df[pos].timestamp - hour)

\* C6 as stated: with at least 20 candles a side without event gets the
\* sentinel and the other side, having an event, always gets a full snapshot.
C6_AsStated ==
    \A side \in Sides :
        (Returned /\ LongChart /\ ~HasEvent(side)) =>
            /\ IsSentinel(SideAnalysis(side))
            /\ HasEvent(Other(side)) => IsFull(SideAnalysis(Other(side)))

\* C6: with at least 20 candles a side without event gets the sentinel; the
\* other side, having an event, gets the full snapshot of the row chosen for
\* it unless calculate_indicators took its except branch, in which case both
\* sides are the sentinel.
C6_AlignmentMiss ==
    \A side \in Sides :
        (Returned /\ LongChart /\ ~HasEvent(side)) =>
            /\ IsSentinel(SideAnalysis(side))
            /\ closest_idx[side] = 0
            /\ (HasEvent(Other(side)) /\ ~ta_error) =>
                  /\ IsFull(SideAnalysis(Other(side)))
                  /\ closest_idx[Other(side)] \in 1..Len(df)
                  /\ SideAnalysis(Other(side)).close_price =
                        Round2(df[closest_idx[Other(side)]].close)
            /\ ta_error => IsSentinel(SideAnalysis(Other(side)))

C6_Witness ==
    /\ Returned /\ LongChart /\ ~ta_error
    /\ ~HasEvent("SELL")
    /\ Len(request.trade_points) = MaxTrades
    /\ IsSentinel(analysis.sell_analysis)
    /\ IsFull(analysis.buy_analysis)

\* C7: the frame is in ascending timestamp order and the row chosen for a
\* side is at minimal distance from the side's event, every earlier row
\* being strictly farther; the snapshot's close is that row's.
C7_NearestCandle ==
    \A side \in Sides :
        closest_idx[side] # 0 =>
            LET hour == request.trade_points[FirstIndexOf(side)].timestamp
                p == closest_idx[side]
            IN  /\ p \in 1..Len(df)
                /\ \A q \in 1..(Len(df) - 1) : df[q].timestamp <= df[q + 1].timestamp
                /\ \A q \in 1..Len(df) : Distance(p, hour) <= Distance(q, hour)
                /\ \A q \in 1..(p - 1) : Distance(q, hour) > Distance(p, hour)
                /\ (\E q \in 1..Len(df) : df[q].timestamp = hour) =>
                      df[p].timestamp = hour
                /\ ~ta_error => SideAnalysis(side).close_price = Round2(df[p].close)

\* two rows at the same positive distance, from a list given out of order
C7_Witness ==
    \E side \in Sides :
        /\ closest_idx[side] # 0
        /\ ~ta_error
        /\ \E i \in 1..(Len(request.chart_data) - 1) :
              request.chart_data[i].timestamp > request.chart_data[i + 1].timestamp
        /\ LET hour == request.trade_points[FirstIndexOf(side)].timestamp
               p == closest_idx[side]
           IN  /\ Distance(p, hour) > 0
               /\ Distance(p + 1, hour) = Distance(p, hour)
               /\ df[p].timestamp < df[p + 1].timestamp

\* C8: the event aligned for a side is the first one of that side in the
\* list as given: the row chosen is nearest to it and the snapshot is the
\* one of that row and that event, whatever events of the side follow.
C8_FirstInList ==
    \A side \in Sides :
        (Returned /\ closest_idx[side] # 0 /\ ~ta_error) =>
            LET hour == request.trade_points[FirstIndexOf(side)].timestamp
                p == closest_idx[side]
            IN  /\ \A q \in 1..Len(df) : Distance(p, hour) <= Distance(q, hour)
                /\ SideAnalysis(side).date = Strftime(hour)
                /\ SideAnalysis(side) = AllIndicators(df[p], hour)

\* two events of one side, the later in the list being the earlier in time
C8_Witness ==
    \E side \in Sides :
        /\ Returned /\ closest_idx[side] # 0 /\ ~ta_error
        /\ \E j \in (FirstIndexOf(side) + 1)..Len(request.trade_points) :
              /\ request.trade_points[j].side = side
              /\ request.trade_points[j].timestamp <
                    request.trade_points[FirstIndexOf(side)].timestamp
              /\ \E q \in 1..Len(df) :
                    Distance(q, request.trade_points[j].timestamp) = 0
        /\ closest_idx[side] = Len(df)

\* C9 as stated: every indicator column that is undefined at the chosen row
\* is None in the snapshot.
C9_UndefinedIsNone ==
    \A side \in Sides :
        (Returned /\ closest_idx[side] # 0 /\ ~ta_error) =>
            \A c \in IndicatorColumns :
                df[closest_idx[side]].ind[c] = NaN => SideAnalysis(side)[c] = None

\* C10 as stated: date is the calendar date of the chosen candle and
\* close_price its close.
C10_AsStated ==
    \A side \in Sides :
        (Returned /\ closest_idx[side] # 0 /\ ~ta_error) =>
            /\ SideAnalysis(side).date = Strftime(df[closest_idx[side]].timestamp)
            /\ SideAnalysis(side).close_price = Round2(df[closest_idx[side]].close)

\* C10: date is the calendar date of the side's trade event and close_price
\* is the close of the chosen candle rounded to two decimals.
C10_DateOfEvent ==
    \A side \in Sides :
        (Returned /\ closest_idx[side] # 0 /\ ~ta_error) =>
            /\ SideAnalysis(side).date =
                  Strftime(request.trade_points[FirstIndexOf(side)].timestamp)
            /\ SideAnalysis(side).close_price = Round2(df[closest_idx[side]].close)

\* the event falls on the day after the chosen candle's
C10_Witness ==
    \E side \in Sides :
        /\ Returned /\ closest_idx[side] # 0 /\ ~ta_error
        /\ SideAnalysis(side).date = "1970-01-02"
        /\ Strftime(df[closest_idx[side]].timestamp) = "1970-01-01"

(* ------------------------------------------------------------------ *)
(* Properties of the report assembler and the route (Spec)              *)
(* ------------------------------------------------------------------ *)
\* generate_completion has returned text that is not JSON
ReturnedMalformed ==
    /\ DOMAIN result # {}
    /\ result.content \in {"malformed", ""}

\* C11: when the completion client returns text that is not JSON, the
\* request ends in the JSON-parse failure: a 500 response without any report
\* field, never a success response, and no completion call after the one
\* that returned the text.
C11_MalformedJson ==
    ReturnedMalformed =>
        /\ calls = result.call
        /\ pc \in {"loads", "route_except", "done"}
        /\ response.status # 200
        /\ pc \in {"route_except", "done"} =>
              failure = [message |-> "OpenAI response JSON parse failed",
                         cause |-> NoError]
        /\ pc = "done" =>
              /\ response.status = 500
              /\ DOMAIN response = {"status", "detail"}
              /\ response.detail = failure

C11_Witness ==
    /\ ReturnedMalformed
    /\ result.content = "malformed"
    /\ result.call >= 2
    /\ pc = "done"
    /\ response.status = 500

\* C12 as stated: every failure response is the generic internal error; its
\* detail carries at most a tag of the failure, never the text of the error
\* the backend raised.
C12_GenericFailure ==
    (pc = "done" /\ response.status = 500) =>
        /\ DOMAIN response = {"status", "detail"}
        /\ response.detail.cause = NoError

(* ------------------------------------------------------------------ *)
(* Cancellation, success, last sleep, attempt count (SpecClient)        *)
(* ------------------------------------------------------------------ *)
\* the request was cancelled at some point
WasCancelled ==
    \/ failure.message = "CancelledError"
    \/ last_error.cls = "CancelledError"
    \/ \E i \in 1..Len(sleeps) : sleeps[i].cls = "CancelledError"

\* C13: once the request is cancelled during the backend call or a backoff
\* sleep, the cancellation leaves generate_completion: it is not recorded as
\* last_error, no sleep is made for it, no call follows it and no response
\* is built.
C13_CancelStopsRetries ==
    WasCancelled =>
        /\ pc = "cancelled"
        /\ failure.cause = [cls |-> "CancelledError", call |-> calls]
        /\ last_error.cls # "CancelledError"
        /\ \A i \in 1..Len(sleeps) : sleeps[i].cls # "CancelledError"
        /\ response = NoResponse

\* cancelled in the first call with attempts left
C13_WitnessCreate ==
    /\ WasCancelled
    /\ pc = "cancelled"
    /\ calls = 1
    /\ sleeps = <<>>
    /\ settings.retry_attempts = MaxAttempts

\* C14: once a call has succeeded nothing more is called or slept, and the
\* result is the upstream content, or "" when there is none, with the
\* upstream total token count, or 0 when there is no usage; never negative.
C14_SuccessResult ==
    DOMAIN result # {} =>
        /\ calls = result.call
        /\ Len(sleeps) = calls - 1
        /\ attempt = calls - 1
        /\ pc \notin {"while", "create", "sleep"}
        /\ result.content =
              (IF result.upstream.content = <<>> THEN ""
               ELSE result.upstream.content[1])
        /\ result.tokens_used =
              (IF result.upstream.usage = <<>> THEN 0
               ELSE result.upstream.usage[1])
        /\ result.tokens_used >= 0

\* a second call hands back neither content nor usage
C14_Witness ==
    /\ pc = "loads"
    /\ calls = 2
    /\ result.upstream = [content |-> <<>>, usage |-> <<>>]
    /\ result.content = ""
    /\ result.tokens_used = 0

\* C15 as stated: every sleep is followed by another call, so no sleep is
\* made after the failure of the last permitted attempt.
C15_SleepOnlyBeforeRetry ==
    \A i \in 1..Len(sleeps) : sleeps[i].attempt + 1 < settings.retry_attempts

\* C16 as stated: whatever retry_attempts is, generate_completion has made at
\* least one call when it returns or raises, and the failure it raises
\* carries the error of one of its calls.
C16_AtLeastOneCall ==
    pc \in {"loads", "route_except"} =>
        /\ calls >= 1
        /\ pc = "route_except" =>
              /\ failure.cause # NoError
              /\ failure.cause.call \in 1..calls

(* ------------------------------------------------------------------ *)
(* The except branch of calculate_indicators in the pipeline (Spec)     *)
(* ------------------------------------------------------------------ *)
BothSentinel ==
    /\ analysis.buy_analysis = [date |-> "N/A", close_price |-> 0]
    /\ analysis.sell_analysis = [date |-> "N/A", close_price |-> 0]

\* C17 as stated: when a step of calculate_indicators raises, both sides are
\* the sentinel and the request always goes on to the completion call.
C17_AsStated ==
    (ta_error /\ pc # "generate_report") =>
        /\ BothSentinel
        /\ ~AbortedBeforeClient

\* C17: when a step of calculate_indicators raises, it returns the sentinel
\* for both sides, also for a side already aligned, and raises nothing; the
\* request goes on to the completion client exactly when building the prompt
\* does not raise.
C17_ExceptBranch ==
    /\ pc = "generate_report" => ~ta_error
    /\ (ta_error /\ pc # "generate_report") =>
          /\ BothSentinel
          /\ LongChart
          /\ AbortedBeforeClient => PromptRaises
          /\ (~PromptRaises /\ pc # "create_prompt") =>
                (pc = "while" \/ calls >= 1)

\* the BUY side had been aligned when the SELL side raised, and the first
\* completion call is under way
C17_Witness ==
    /\ ta_error
    /\ closest_idx["BUY"] # 0
    /\ BothSentinel
    /\ pc = "create"
    /\ calls = 1

====
